---- MODULE Spec2Model ----
(***************************************************************************)
(* Model of src/scripts/pages/form.js: the submit listener of the contact  *)
(* form (validation of first name, last name, email and message) and the   *)
(* asynchronous initForm routine that fetches a photographer record and    *)
(* writes its name into the heading of the contact modal.                  *)
(*                                                                         *)
(* A JavaScript string is a sequence of UTF-16 code units (naturals).      *)
(***************************************************************************)
EXTENDS Integers, Sequences, FiniteSets, TLC

VARIABLES
  first, last, email, emailValid, message,   \* field values, email.validity.valid
  errFirst, errLast, errEmail, errMessage,   \* style.display of the four indicators
  submits, closeCalls, lastReturn,           \* submit events, closeModal() calls, last return value
  pc, urlId, response, data,                 \* position of initForm, ?id=..., fetch settlement, decoded body
  heading, headingWrites, requests,          \* '#contact_modal h2' text, writes to it, fetch() calls
  errorLog, uncaught                         \* console.error calls, rejection escaping initForm

fieldVars == <<first, last, email, emailValid, message>>
indicatorVars == <<errFirst, errLast, errEmail, errMessage>>
submitVars == <<submits, closeCalls, lastReturn>>
loaderVars == <<pc, urlId, response, data, heading, headingWrites, requests, errorLog, uncaught>>
vars == <<fieldVars, indicatorVars, submitVars, loaderVars>>

----------------------------------------------------------------------------
(* Bounds of the model.                                                    *)

MaxNameLen == 5
MaxEmailLen == 6
MaxMsgLen == 4
MaxSubmits == 2
MaxRecords == 2

----------------------------------------------------------------------------
(* Characters.                                                             *)

\* WhiteSpace and LineTerminator code units of ECMAScript: what
\* String.prototype.trim strips and what \s matches.
WhiteSpaceChars ==
  {9, 10, 11, 12, 13, 32, 160, 5760, 8232, 8233, 8239, 8287, 12288, 65279}
    \cup (8192..8202)

IsWhiteSpace(c) == c \in WhiteSpaceChars

\* [a-zA-Z\xC0-\uFFFF]
IsNameLetter(c) == (c >= 97 /\ c <= 122) \/ (c >= 65 /\ c <= 90) \/ (c >= 192 /\ c <= 65535)

\* [ \-']
IsNameSeparator(c) == c \in {32, 45, 39}

\* [.] and \.
IsPeriod(c) == c = 46

\* @
IsAt(c) == c = 64

\* [^\s@]
IsNotSpaceNorAt(c) == ~IsWhiteSpace(c) /\ ~IsAt(c)

----------------------------------------------------------------------------
(* String.prototype.trim                                                   *)

RECURSIVE trimStart(_)
trimStart(s) ==
  IF s = <<>> THEN s
  ELSE IF IsWhiteSpace(Head(s)) THEN trimStart(Tail(s)) ELSE s

RECURSIVE trimEnd(_)
trimEnd(s) ==
  IF s = <<>> THEN s
  ELSE IF IsWhiteSpace(s[Len(s)]) THEN trimEnd(SubSeq(s, 1, Len(s) - 1)) ELSE s

trim(s) == trimEnd(trimStart(s))

----------------------------------------------------------------------------
(* Regular expressions.  A matcher state is the set of positions (index of *)
(* the next unread character) the pattern can have reached; ^ starts at    *)
(* {1} and $ asks for Len(s) + 1.                                          *)

\* membership of a character in one of the classes the two patterns use
InClass(cls, c) ==
  CASE cls = "letter" -> IsNameLetter(c)
    [] cls = "separator" -> IsNameSeparator(c)
    [] cls = "period" -> IsPeriod(c)
    [] cls = "at" -> IsAt(c)
    [] cls = "notSpaceNorAt" -> IsNotSpaceNorAt(c)

\* X+ : one or more characters of class cls
Plus(s, P, cls) ==
  {j \in 2..(Len(s) + 1) : \E i \in P : i < j /\ \A k \in i..(j - 1) : InClass(cls, s[k])}

\* X{0,1} : at most one character of class cls
Optional(s, P, cls) ==
  P \cup {i + 1 : i \in {p \in P : p <= Len(s) /\ InClass(cls, s[p])}}

\* X : exactly one character of class cls
One(s, P, cls) ==
  {i + 1 : i \in {p \in P : p <= Len(s) /\ InClass(cls, s[p])}}

\* ([ \-']{0,1}[a-zA-Z\xC0-\uFFFF]+)
NameGroup(s, P) == Plus(s, Optional(s, P, "separator"), "letter")

\* (...){0,2}
NameGroupsUpTo2(s, P) == P \cup NameGroup(s, P) \cup NameGroup(s, NameGroup(s, P))

\* regexNames.test(s)
regexNamesTest(s) ==
  (Len(s) + 1) \in
     Optional(s, NameGroupsUpTo2(s, Plus(s, {1}, "letter")), "period")

\* regexEmail.test(s)
regexEmailTest(s) ==
  (Len(s) + 1) \in
     Plus(s, One(s, Plus(s, One(s, Plus(s, {1}, "notSpaceNorAt"), "at"),
                         "notSpaceNorAt"), "period"), "notSpaceNorAt")

----------------------------------------------------------------------------
(* The three checks of the submit listener: TRUE when the field fails.     *)

validateNameFails_NoLength(value) ==
  ~regexNamesTest(trim(value))

validateNameFails(value) ==
  Len(trim(value)) < 2 \/ ~regexNamesTest(trim(value))

validateEmailFails_Trimmed(value, valid) ==
  Len(trim(value)) < 2 \/ ~valid \/ ~regexEmailTest(trim(value))

validateEmailFails(value, valid) ==
  Len(trim(value)) < 2 \/ ~valid \/ ~regexEmailTest(value)

validateMessageFails_NoTrim(value) ==
  Len(value) < 2

validateMessageFails(value) ==
  Len(trim(value)) < 2

\* style.display written by one check
display(fails) == IF fails THEN "inline" ELSE "none"

errorsFlag_Overwritten(f, l, e, v, m) ==
  validateMessageFails(m)

\* the errors flag after the four calls
errorsFlag(f, l, e, v, m) ==
  validateNameFails(f) \/ validateNameFails(l) \/ validateEmailFails(e, v)
    \/ validateMessageFails(m)

----------------------------------------------------------------------------
(* The submit listener.                                                    *)

\* the listener exists once the script has run (addEventListener at load)
ListenerReady_AfterFetch(p) == p = "done"

ListenerReady(p) == p # "start"

\* a submit event can be dispatched to the listener; every other conjunct of
\* Submit is an assignment, so this is its enabling condition
SubmitEnabled == ListenerReady(pc) /\ submits < MaxSubmits

Submit_ShortCircuit ==
  /\ SubmitEnabled
  /\ LET f1 == validateNameFails(first)
         f2 == validateNameFails(last)
         f3 == validateEmailFails(email, emailValid)
     IN  /\ errFirst' = display(f1)
         /\ errLast' = IF f1 THEN errLast ELSE display(f2)
         /\ errEmail' = IF f1 \/ f2 THEN errEmail ELSE display(f3)
         /\ errMessage' = IF f1 \/ f2 \/ f3 THEN errMessage
                          ELSE display(validateMessageFails(message))
  /\ closeCalls' = IF ~errorsFlag(first, last, email, emailValid, message)
                   THEN closeCalls + 1 ELSE closeCalls
  /\ lastReturn' = IF ~errorsFlag(first, last, email, emailValid, message)
                   THEN "true" ELSE "false"
  /\ submits' = submits + 1
  /\ UNCHANGED <<fieldVars, loaderVars>>

Submit ==
  /\ SubmitEnabled
  /\ errFirst' = display(validateNameFails(first))
  /\ errLast' = display(validateNameFails(last))
  /\ errEmail' = display(validateEmailFails(email, emailValid))
  /\ errMessage' = display(validateMessageFails(message))
  /\ closeCalls' = IF ~errorsFlag(first, last, email, emailValid, message)
                   THEN closeCalls + 1 ELSE closeCalls
  /\ lastReturn' = IF ~errorsFlag(first, last, email, emailValid, message)
                   THEN "true" ELSE "false"
  /\ submits' = submits + 1
  /\ UNCHANGED <<fieldVars, loaderVars>>

----------------------------------------------------------------------------
(* The user edits a field between submit events.                           *)

FirstValues == {<<>>, <<65, 108>>}                              \* "", "Al"
LastValues == {<<>>, <<79, 39, 66>>}                            \* "", "O'B"
EmailValues == {<<>>, <<97, 64, 98, 46, 99>>}                   \* "", "a@b.c"
MessageValues == {<<>>, <<72, 105>>}                            \* "", "Hi"

InputFirst(v) ==
  /\ first' = v
  /\ UNCHANGED <<last, email, emailValid, message, indicatorVars, submitVars, loaderVars>>

InputLast(v) ==
  /\ last' = v
  /\ UNCHANGED <<first, email, emailValid, message, indicatorVars, submitVars, loaderVars>>

\* the browser recomputes validity.valid from the new value and the
\* constraints of the markup
InputEmail(v, valid) ==
  /\ email' = v
  /\ emailValid' = valid
  /\ UNCHANGED <<first, last, message, indicatorVars, submitVars, loaderVars>>

InputMessage(v) ==
  /\ message' = v
  /\ UNCHANGED <<first, last, email, emailValid, indicatorVars, submitVars, loaderVars>>

----------------------------------------------------------------------------
(* initForm and getPhotographerDetails.                                    *)

\* urlParams.get('id'): null when the parameter is absent
NoId == [present |-> FALSE, value |-> <<>>]
Id(s) == [present |-> TRUE, value |-> s]

IdMissing_NullOnly(id) == ~id.present

\* !photographerId
IdMissing(id) == ~id.present \/ id.value = <<>>

IsDigit(c) == c >= 48 /\ c <= 57

RECURSIVE digitsPrefix(_)
digitsPrefix(s) ==
  IF s = <<>> \/ ~IsDigit(Head(s)) THEN <<>>
  ELSE <<Head(s)>> \o digitsPrefix(Tail(s))

RECURSIVE digitsValue(_)
digitsValue(s) ==
  IF s = <<>> THEN 0
  ELSE 10 * digitsValue(SubSeq(s, 1, Len(s) - 1)) + (s[Len(s)] - 48)

\* parseInt(s, 10): leading white space, a sign, the longest digit prefix
parseInt(s) ==
  LET t == trimStart(s)
      signed == t # <<>> /\ Head(t) \in {43, 45}
      sign == IF t # <<>> /\ Head(t) = 45 THEN -1 ELSE 1
      d == digitsPrefix(IF signed THEN Tail(t) ELSE t)
  IN  IF d = <<>> THEN [nan |-> TRUE, val |-> 0]
      ELSE [nan |-> FALSE, val |-> sign * digitsValue(d)]

\* p.id === n for a numeric p.id
StrictEquals(id, n) == ~n.nan /\ id = n.val

RECURSIVE findFrom(_, _, _)
findFrom(records, n, i) ==
  IF i > Len(records) THEN 0
  ELSE IF StrictEquals(records[i].id, n) THEN i
  ELSE findFrom(records, n, i + 1)

find_Last(records, n) ==
  LET m == {i \in 1..Len(records) : StrictEquals(records[i].id, n)}
  IN  IF m = {} THEN 0 ELSE CHOOSE i \in m : \A j \in m : j <= i

\* photographers.find(p => p.id === n): index of the record, 0 for undefined
find(records, n) == findFrom(records, n, 1)

\* `Contactez-moi ${name}`
updateFormHeader(name) == "Contactez-moi " \o name

InitialHeading == "Contactez-moi"

NoData == [kind |-> "none", records |-> <<>>]
Malformed == [kind |-> "malformed", records |-> <<>>]
Records(rs) == [kind |-> "records", records |-> rs]

Photographers ==
  { [id |-> 7, name |-> "Mimi Keel"],
    [id |-> 7, name |-> "Ellie-Rose Wilkens"],
    [id |-> 8, name |-> "Tracy Galindo"] }

RecordSets == UNION { [1..n -> Photographers] : n \in 0..MaxRecords }

\* script load: the listener is registered and initForm runs to its first await
LoadScript ==
  /\ pc = "start"
  /\ IF IdMissing(urlId)
     THEN /\ errorLog' = Append(errorLog, "Photographer ID is required for the form.")
          /\ pc' = "done"
          /\ requests' = requests
     ELSE /\ requests' = requests + 1
          /\ pc' = "awaitFetch"
          /\ errorLog' = errorLog
  /\ UNCHANGED <<fieldVars, indicatorVars, submitVars,
                 urlId, response, data, heading, headingWrites, uncaught>>

LoaderFails_NoCatch ==
  /\ uncaught' = TRUE
  /\ pc' = "done"
  /\ UNCHANGED <<heading, headingWrites, requests, errorLog>>

\* the catch block of getPhotographerDetails, then the else branch of initForm
LoaderFails ==
  /\ errorLog' = errorLog \o <<"Failed to fetch photographer details for form:",
                               "Failed to load photographer details for the form.">>
  /\ pc' = "done"
  /\ UNCHANGED <<heading, headingWrites, requests, uncaught>>

FetchReject_Retry ==
  /\ pc = "awaitFetch"
  /\ requests < 3
  /\ response' = "rejected"
  /\ requests' = requests + 1
  /\ errorLog' = Append(errorLog, "Failed to fetch photographer details for form:")
  /\ UNCHANGED <<fieldVars, indicatorVars, submitVars, pc, urlId, data,
                 heading, headingWrites, uncaught>>

\* fetch() rejects: network error
FetchReject ==
  /\ pc = "awaitFetch"
  /\ response' = "rejected"
  /\ LoaderFails
  /\ UNCHANGED <<fieldVars, indicatorVars, submitVars, urlId, data>>

\* fetch() resolves with response.ok = ok
FetchResolve(ok) ==
  /\ pc = "awaitFetch"
  /\ IF ok
     THEN /\ response' = "ok"
          /\ pc' = "awaitJson"
          /\ UNCHANGED <<heading, headingWrites, requests, errorLog, uncaught>>
     ELSE /\ response' = "notOk"
          /\ LoaderFails
  /\ UNCHANGED <<fieldVars, indicatorVars, submitVars, urlId, data>>

\* response.json() rejects: the body is not JSON
JsonReject ==
  /\ pc = "awaitJson"
  /\ data' = [kind |-> "rejected", records |-> <<>>]
  /\ LoaderFails
  /\ UNCHANGED <<fieldVars, indicatorVars, submitVars, urlId, response>>

\* response.json() resolves with a body that has no record.photographers array
JsonMalformed ==
  /\ pc = "awaitJson"
  /\ data' = Malformed
  /\ LoaderFails
  /\ UNCHANGED <<fieldVars, indicatorVars, submitVars, urlId, response>>

\* response.json() resolves with data.record.photographers = rs
JsonResolve(rs) ==
  /\ pc = "awaitJson"
  /\ data' = Records(rs)
  /\ LET i == find(rs, parseInt(urlId.value))
     IN  IF i # 0
         THEN /\ heading' = updateFormHeader(rs[i].name)
              /\ headingWrites' = headingWrites + 1
              /\ errorLog' = errorLog
         ELSE /\ errorLog' = Append(errorLog, "Failed to load photographer details for the form.")
              /\ UNCHANGED <<heading, headingWrites>>
  /\ pc' = "done"
  /\ UNCHANGED <<fieldVars, indicatorVars, submitVars, urlId, response, requests, uncaught>>

----------------------------------------------------------------------------
(* The page.                                                               *)

\* absent, "", "7", "7x", "x"
UrlIds == {NoId, Id(<<>>), Id(<<55>>), Id(<<55, 120>>), Id(<<120>>)}

InitCommon ==
  /\ errFirst = "" /\ errLast = "" /\ errEmail = "" /\ errMessage = ""
  /\ submits = 0 /\ closeCalls = 0 /\ lastReturn = "none"
  /\ pc = "start"
  /\ response = "pending"
  /\ data = NoData
  /\ heading = InitialHeading
  /\ headingWrites = 0
  /\ requests = 0
  /\ errorLog = <<>>
  /\ uncaught = FALSE

Init ==
  /\ first = <<>> /\ last = <<>> /\ email = <<>> /\ message = <<>>
  /\ emailValid \in BOOLEAN
  /\ urlId \in UrlIds
  /\ InitCommon

Next ==
  \/ LoadScript
  \/ FetchReject
  \/ \E ok \in BOOLEAN : FetchResolve(ok)
  \/ JsonReject
  \/ JsonMalformed
  \/ \E rs \in RecordSets : JsonResolve(rs)
  \/ \E v \in FirstValues : InputFirst(v)
  \/ \E v \in LastValues : InputLast(v)
  \/ \E v \in EmailValues, valid \in BOOLEAN : InputEmail(v, valid)
  \/ \E v \in MessageValues : InputMessage(v)
  \/ Submit

Spec == Init /\ [][Next]_vars

TypeOK ==
  /\ pc \in {"start", "awaitFetch", "awaitJson", "done"}
  /\ lastReturn \in {"none", "true", "false"}
  /\ submits \in 0..MaxSubmits
  /\ closeCalls \in 0..MaxSubmits

----------------------------------------------------------------------------
(* Specifications of the single checks: the field under test starts with   *)
(* any bounded string, the other fields hold values that pass, and the     *)
(* page carries no identifier.                                             *)

Strings(chars, n) == UNION { [1..k -> chars] : k \in 0..n }

ValidName == <<65, 108>>                    \* "Al"
ValidEmail == <<97, 64, 98, 46, 99>>        \* "a@b.c"
ValidMessage == <<72, 105>>                 \* "Hi"

\* a, space, -, ., 1, tab
NameChars == {97, 32, 45, 46, 49, 9}

JeanPaul == <<74, 101, 97, 110, 45, 80, 97, 117, 108>>
OBrien == <<79, 39, 66, 114, 105, 101, 110>>
Muller == <<77, 252, 108, 108, 101, 114>>
SingleA == <<65>>
John123 == <<74, 111, 104, 110, 49, 50, 51>>

NameExamples ==
  { JeanPaul, OBrien, Muller, SingleA, John123,
    <<97, 45, 97, 45, 97, 45, 97>>,           \* "a-a-a-a"
    <<97, 32, 98, 45, 99, 46>>,               \* "a b-c."
    <<97, 39, 39, 98>>,                       \* "a''b"
    <<9, 74, 101, 97, 110, 12288>> }          \* tab "Jean" U+3000

NameInputs == Strings(NameChars, MaxNameLen) \cup NameExamples

InitName ==
  /\ \E v \in NameInputs :
        \/ first = v /\ last = ValidName
        \/ first = ValidName /\ last = v
  /\ email = ValidEmail /\ emailValid = TRUE /\ message = ValidMessage
  /\ urlId = NoId
  /\ InitCommon

NextChecks == LoadScript \/ Submit

SpecName == InitName /\ [][NextChecks]_vars

\* a, @, ., space
EmailChars == {97, 64, 46, 32}

AtBCo == <<97, 64, 98, 46, 99, 111>>                                  \* "a@b.co"
NotAnEmail == <<110, 111, 116, 45, 97, 110, 45, 101, 109, 97, 105, 108>>
OneSpace == <<32>>

EmailExamples ==
  { AtBCo, NotAnEmail, OneSpace,
    <<32, 97, 64, 98, 46, 99, 111>>,          \* " a@b.co"
    <<97, 64, 98, 46, 99, 111, 9>>,           \* "a@b.co" tab
    <<97, 64, 98, 9, 46, 99, 111>> }          \* "a@b" tab ".co"

EmailInputs == Strings(EmailChars, MaxEmailLen) \cup EmailExamples

InitEmail ==
  /\ first = ValidName /\ last = ValidName /\ message = ValidMessage
  /\ email \in EmailInputs
  /\ emailValid \in BOOLEAN
  /\ urlId = NoId
  /\ InitCommon

SpecEmail == InitEmail /\ [][NextChecks]_vars

\* a, space, tab, 1
MessageChars == {97, 32, 9, 49}

MessageInputs == Strings(MessageChars, MaxMsgLen)

InitMessage ==
  /\ first = ValidName /\ last = ValidName
  /\ email = ValidEmail /\ emailValid = TRUE
  /\ message \in MessageInputs
  /\ urlId = NoId
  /\ InitCommon

SpecMessage == InitMessage /\ [][NextChecks]_vars

----------------------------------------------------------------------------
(* The rules of section 4.1, stated on the text of a field.                *)

NonSpaceAt(s) == {k \in 1..Len(s) : ~IsWhiteSpace(s[k])}

\* the value without its leading and trailing white space
Trimmed(s) ==
  IF NonSpaceAt(s) = {} THEN <<>>
  ELSE SubSeq(s, CHOOSE i \in NonSpaceAt(s) : \A j \in NonSpaceAt(s) : i <= j,
                 CHOOSE i \in NonSpaceAt(s) : \A j \in NonSpaceAt(s) : j <= i)

WithoutTrailingPeriod(t) ==
  IF t # <<>> /\ t[Len(t)] = 46 THEN SubSeq(t, 1, Len(t) - 1) ELSE t

\* letters in one to three groups joined by single separators
NameGroups(b) ==
  /\ b # <<>>
  /\ \A k \in 1..Len(b) : IsNameLetter(b[k]) \/ IsNameSeparator(b[k])
  /\ IsNameLetter(b[1]) /\ IsNameLetter(b[Len(b)])
  /\ \A k \in 1..(Len(b) - 1) : ~(IsNameSeparator(b[k]) /\ IsNameSeparator(b[k + 1]))
  /\ Cardinality({k \in 1..Len(b) : IsNameSeparator(b[k])}) <= 2

NamePattern(t) == NameGroups(WithoutTrailingPeriod(t))

NameAllowedChar(c) == IsNameLetter(c) \/ IsNameSeparator(c) \/ c = 46

NameRulePasses(s) == Len(Trimmed(s)) >= 2 /\ NamePattern(Trimmed(s))

\* local@domain.tld, every segment non-empty and free of white space and @
EmailPattern(s) ==
  \E i, j \in 1..Len(s) :
     /\ 1 < i /\ i + 1 < j /\ j < Len(s)
     /\ s[i] = 64 /\ s[j] = 46
     /\ \A k \in 1..Len(s) : k # i => (~IsWhiteSpace(s[k]) /\ s[k] # 64)

EmailRulePasses(s, valid) == Len(Trimmed(s)) >= 2 /\ valid /\ EmailPattern(s)

MessageRulePasses(s) == \E i, j \in NonSpaceAt(s) : i < j

AllPass ==
  /\ NameRulePasses(first) /\ NameRulePasses(last)
  /\ EmailRulePasses(email, emailValid) /\ MessageRulePasses(message)

Shown(passes) == IF passes THEN "none" ELSE "inline"

----------------------------------------------------------------------------
(* Claims.                                                                 *)

\* C1: a submit event closes the modal exactly once and returns true when
\* all four fields pass their rule, and otherwise does not close the modal
\* and returns false.
C1_SubmitResult ==
  [][ submits' # submits =>
        IF AllPass
        THEN closeCalls' = closeCalls + 1 /\ lastReturn' = "true"
        ELSE closeCalls' = closeCalls /\ lastReturn' = "false" ]_vars

C1_Witness == submits = 2 /\ closeCalls = 1 /\ lastReturn = "false"

\* C2: every pass writes all four indicators: each one is 'inline' exactly
\* when its own field fails in this pass and 'none' otherwise, whatever the
\* other fields do and whatever the indicator showed before.
C2_IndicatorsFollowLastPass ==
  [][ submits' # submits =>
        /\ errFirst' = Shown(NameRulePasses(first))
        /\ errLast' = Shown(NameRulePasses(last))
        /\ errEmail' = Shown(EmailRulePasses(email, emailValid))
        /\ errMessage' = Shown(MessageRulePasses(message)) ]_vars

C2_Witness ==
  /\ submits = 2
  /\ errFirst = "inline" /\ errLast = "none"
  /\ errEmail = "inline" /\ errMessage = "none"

\* C3 as stated: a name passes when its trimmed value has length >= 2 and
\* matches the pattern, and fails when its trimmed length is < 2 or the
\* input contains a character outside the allowed set.
C3_AsStated ==
  submits > 0 =>
    \A f \in {<<first, errFirst>>, <<last, errLast>>} :
       /\ NameRulePasses(f[1]) => f[2] = "none"
       /\ (Len(Trimmed(f[1])) < 2 \/ \E k \in 1..Len(f[1]) : ~NameAllowedChar(f[1][k]))
             => f[2] = "inline"

\* C3 amended: a name passes exactly when its trimmed value has length >= 2
\* and matches the pattern; it fails when the trimmed length is < 2 or the
\* trimmed value contains a character outside the allowed set.  The examples
\* "Jean-Paul", "O'Brien", "Muller" (with u-umlaut) pass, "A" and "John123" fail.
C3_NameRule ==
  submits > 0 =>
    \A f \in {<<first, errFirst>>, <<last, errLast>>} :
       /\ f[2] = Shown(NameRulePasses(f[1]))
       /\ (Len(Trimmed(f[1])) < 2
             \/ \E k \in 1..Len(Trimmed(f[1])) : ~NameAllowedChar(Trimmed(f[1])[k]))
             => f[2] = "inline"
       /\ f[1] \in {JeanPaul, OBrien, Muller} => f[2] = "none"
       /\ f[1] \in {SingleA, John123} => f[2] = "inline"

C3_Witness ==
  /\ submits > 0
  /\ first = <<9, 74, 101, 97, 110, 12288>>
  /\ errFirst = "none" /\ errLast = "none"

\* C4: the email check fails exactly when the trimmed value is shorter than
\* 2, or the validity flag is invalid, or the raw value does not match
\* local@domain.tld; "a@b.co" passes when the flag is valid, "not-an-email"
\* and " " fail, and a value that matches only after trimming fails.
C4_EmailRule ==
  submits > 0 =>
    /\ errEmail = "inline" <=>
         (Len(Trimmed(email)) < 2 \/ ~emailValid \/ ~EmailPattern(email))
    /\ (email = AtBCo /\ emailValid) => errEmail = "none"
    /\ email \in {NotAnEmail, OneSpace} => errEmail = "inline"
    /\ (EmailPattern(Trimmed(email)) /\ Trimmed(email) # email) => errEmail = "inline"

C4_Witness ==
  /\ submits > 0
  /\ email = <<32, 97, 64, 98, 46, 99, 111>> /\ emailValid
  /\ errEmail = "inline"

\* C5 as stated: a message of length 0 or 1 fails and a message of length
\* >= 2 passes whatever its content.
C5_AsStated ==
  submits > 0 =>
    /\ Len(message) < 2 => errMessage = "inline"
    /\ Len(message) >= 2 => errMessage = "none"

\* C5 amended: a message fails when fewer than two characters remain after
\* trimming (so every message of length 0 or 1 and every message of white
\* space fails) and passes when at least two remain, whatever they are.
C5_MessageRule ==
  submits > 0 =>
    /\ errMessage = Shown(MessageRulePasses(message))
    /\ Len(message) < 2 => errMessage = "inline"

C5_Witness ==
  /\ submits > 0
  /\ message = <<32, 97, 9>>
  /\ errMessage = "inline"

\* C6: with the id parameter absent or empty, initForm logs one error and
\* ends without a request and without touching the heading.
C6_NoIdNoRequest ==
  (pc # "start" /\ (~urlId.present \/ Len(urlId.value) = 0)) =>
    /\ pc = "done"
    /\ requests = 0
    /\ response = "pending"
    /\ heading = InitialHeading /\ headingWrites = 0
    /\ errorLog = <<"Photographer ID is required for the form.">>

C6_Witness == pc = "done" /\ urlId.present /\ urlId.value = <<>> /\ requests = 0

Matches(rec) == ~parseInt(urlId.value).nan /\ rec.id = parseInt(urlId.value).val

HasMatch == \E i \in 1..Len(data.records) : Matches(data.records[i])

\* C7: when the decoded record set holds a record whose id is the base-10
\* parse of the identifier, the heading becomes 'Contactez-moi ' followed by
\* the name of the first such record; the heading is written in no other
\* case and never before the fetch has resolved.
C7_HeadingOfFirstMatch ==
  /\ (pc = "done" /\ data.kind = "records" /\ HasMatch) =>
        \E i \in 1..Len(data.records) :
           /\ Matches(data.records[i])
           /\ \A j \in 1..(i - 1) : ~Matches(data.records[j])
           /\ heading = "Contactez-moi " \o data.records[i].name
  /\ (pc = "done" /\ data.kind = "records" /\ urlId.value \in {<<55>>, <<55, 120>>}
        /\ \E i \in 1..Len(data.records) : data.records[i].id = 7)
        => heading # InitialHeading
  /\ (heading # InitialHeading \/ headingWrites > 0) =>
        /\ urlId.present /\ response = "ok" /\ pc = "done"
        /\ data.kind = "records" /\ HasMatch

C7_Witness ==
  /\ pc = "done"
  /\ urlId.value = <<55, 120>>
  /\ Len(data.records) = 2
  /\ data.records[1].id = 7 /\ data.records[2].id = 7
  /\ data.records[1].name # data.records[2].name
  /\ heading = "Contactez-moi Ellie-Rose Wilkens"

LoadFailed ==
  \/ response \in {"rejected", "notOk"}
  \/ data.kind \in {"rejected", "malformed"}
  \/ data.kind = "records" /\ ~HasMatch

C9_SubmitIndependentOfFetch ==
  /\ []((pc \in {"awaitFetch", "awaitJson", "done"} /\ submits < MaxSubmits)
          => SubmitEnabled)
  /\ [][ submits' # submits =>
           /\ UNCHANGED loaderVars
           /\ lastReturn' = (IF AllPass THEN "true" ELSE "false")
           /\ closeCalls' = (IF AllPass THEN closeCalls + 1 ELSE closeCalls)
           /\ errFirst' = Shown(NameRulePasses(first))
           /\ errLast' = Shown(NameRulePasses(last))
           /\ errEmail' = Shown(EmailRulePasses(email, emailValid))
           /\ errMessage' = Shown(MessageRulePasses(message)) ]_vars
  /\ [][ loaderVars' # loaderVars =>
           UNCHANGED <<fieldVars, indicatorVars, submitVars>> ]_vars

C9_Witness ==
  /\ pc = "awaitJson" /\ submits = 2
  /\ closeCalls = 1 /\ heading = InitialHeading

\* C10: at most one request is issued and the heading is written at most
\* once; a failed request is not retried, and while the request is pending
\* the heading stays as it was and no further request is made.
C10_SingleRequest ==
  /\ requests <= 1 /\ headingWrites <= 1
  /\ pc \in {"awaitFetch", "awaitJson"} =>
        (requests = 1 /\ heading = InitialHeading /\ headingWrites = 0)
  /\ LoadFailed => requests = 1
  /\ headingWrites = 1 => requests = 1

C10_Witness == response = "rejected" /\ pc = "done" /\ requests = 1

====
